---- MODULE Spec2Model ----
(***************************************************************************)
(* A model of the keyring package: keyring() construction, encrypt,        *)
(* decrypt, digest and currentId (keyring.js), and the Sequelize           *)
(* beforeSave / afterFind hooks (sequelize.js).                            *)
(*                                                                         *)
(* Values are modelled concretely:                                         *)
(*   - a byte is a number in 0..255, a Buffer a sequence of bytes;         *)
(*   - a JavaScript string is a sequence of UTF-16 code units;             *)
(*   - a JavaScript value is a record [type, str, num, bytes].             *)
(* The primitives of node's crypto module are stand-ins with the same      *)
(* structure (CBC chaining, PKCS#7 padding, length checks, a keyed 32-byte *)
(* tag that changes with every bit of the key or the message); the keyed   *)
(* block permutation and the hash functions themselves are not AES/SHA.    *)
(***************************************************************************)
EXTENDS Integers, Sequences, FiniteSets, TLC

\* ------------------------------------------------------------------ bytes

RECURSIVE Xor(_, _)
\* a ^ b on non-negative integers
Xor(a, b) ==
  IF a = 0 THEN b
  ELSE IF b = 0 THEN a
  ELSE ((a + b) % 2) + 2 * Xor((a \div 2), (b \div 2))

RECURSIVE BitOr(_, _)
\* a | b on non-negative integers
BitOr(a, b) ==
  IF a = 0 THEN b
  ELSE IF b = 0 THEN a
  ELSE (IF (a % 2) = 1 \/ (b % 2) = 1 THEN 1 ELSE 0)
       + 2 * BitOr((a \div 2), (b \div 2))

\* buffer.subarray(start, end): clamps to the buffer, zero-based, end exclusive
Subarray(buf, start, end) ==
  LET s == IF start > Len(buf) THEN Len(buf) ELSE start
      e == IF end > Len(buf) THEN Len(buf) ELSE end
  IN  IF e <= s THEN << >> ELSE SubSeq(buf, s + 1, e)

\* ----------------------------------------------------------------- base64
\* Text is a sequence of UTF-16 code units, as every JavaScript string here.

\* "=" 
PadChar == 61

\* the character of a 6-bit value: A-Z, a-z, 0-9, "+", "/"
Base64Char(v) ==
  IF v < 26 THEN 65 + v
  ELSE IF v < 52 THEN 97 + (v - 26)
  ELSE IF v < 62 THEN 48 + (v - 52)
  ELSE IF v = 62 THEN 43
  ELSE 47

\* the 6-bit value of a character, -1 for a character outside the alphabet
\* ("-" and "_" are read as "+" and "/")
Base64Index(c) ==
  IF c >= 65 /\ c <= 90 THEN c - 65
  ELSE IF c >= 97 /\ c <= 122 THEN c - 97 + 26
  ELSE IF c >= 48 /\ c <= 57 THEN c - 48 + 52
  ELSE IF c = 43 \/ c = 45 THEN 62
  ELSE IF c = 47 \/ c = 95 THEN 63
  ELSE -1

\* buffer.toString("base64"): four characters for every three bytes, the
\* last group padded with "="
Base64Encode(bytes) ==
  LET n == Len(bytes)
      at(i) == IF i <= n THEN bytes[i] ELSE 0
  IN  [j \in 1..(4 * ((n + 2) \div 3)) |->
         LET g == 3 * ((j - 1) \div 4)
             k == (j - 1) % 4
         IN  IF k = 0 THEN Base64Char(at(g + 1) \div 4)
             ELSE IF k = 1
             THEN Base64Char((at(g + 1) % 4) * 16 + (at(g + 2) \div 16))
             ELSE IF k = 2
             THEN IF g + 2 > n THEN PadChar
                  ELSE Base64Char((at(g + 2) % 16) * 4 + (at(g + 3) \div 64))
             ELSE IF g + 3 > n THEN PadChar
                  ELSE Base64Char(at(g + 3) % 64)]

IsBase64Char(c) == Base64Index(c) >= 0

\* the 6-bit values of the text up to its first "=", characters outside the
\* alphabet skipped
Base64Sextets(text) ==
  LET pads == {i \in 1..Len(text) : text[i] = PadChar}
      stop == IF pads = {} THEN Len(text)
              ELSE (CHOOSE i \in pads : \A j \in pads : i <= j) - 1
      kept == SelectSeq(SubSeq(text, 1, stop), IsBase64Char)
  IN  [i \in 1..Len(kept) |-> Base64Index(kept[i])]

\* three bytes for every four 6-bit values, one or two for a last group of
\* two or three
Base64Bytes(sx) ==
  LET at(i) == IF i <= Len(sx) THEN sx[i] ELSE 0
  IN  [i \in 1..((Len(sx) * 3) \div 4) |->
         LET g == 4 * ((i - 1) \div 3)
             k == (i - 1) % 3
         IN  IF k = 0 THEN at(g + 1) * 4 + (at(g + 2) \div 16)
             ELSE IF k = 1 THEN (at(g + 2) % 16) * 16 + (at(g + 3) \div 4)
             ELSE (at(g + 3) % 4) * 64 + at(g + 4)]

\* Buffer.from(text, "base64")
Base64Decode(text) == Base64Bytes(Base64Sextets(text))

\* ------------------------------------------------------------------ UTF-8

ReplacementChar == 65533

IsHighSurrogate(c) == c >= 55296 /\ c <= 56319
IsLowSurrogate(c) == c >= 56320 /\ c <= 57343

RECURSIVE Utf8Encode(_)
\* Buffer.from(string): UTF-8 of a sequence of UTF-16 code units; a surrogate
\* without its pair is written as U+FFFD
Utf8Encode(s) ==
  IF Len(s) = 0 THEN << >>
  ELSE
    LET c == s[1] IN
    IF c < 128 THEN << c >> \o Utf8Encode(Tail(s))
    ELSE IF c < 2048 THEN
      << 192 + (c \div 64), 128 + (c % 64) >> \o Utf8Encode(Tail(s))
    ELSE IF IsHighSurrogate(c) /\ Len(s) > 1 /\ IsLowSurrogate(s[2]) THEN
      LET cp == 65536 + (c - 55296) * 1024 + (s[2] - 56320) IN
      << 240 + (cp \div 262144),
         128 + ((cp \div 4096) % 64),
         128 + ((cp \div 64) % 64),
         128 + (cp % 64) >>
      \o Utf8Encode(SubSeq(s, 3, Len(s)))
    ELSE IF IsHighSurrogate(c) \/ IsLowSurrogate(c) THEN
      << 239, 191, 189 >> \o Utf8Encode(Tail(s))
    ELSE
      << 224 + (c \div 4096), 128 + ((c \div 64) % 64), 128 + (c % 64) >>
      \o Utf8Encode(Tail(s))

IsContinuation(bytes, i) ==
  i <= Len(bytes) /\ bytes[i] >= 128 /\ bytes[i] < 192

RECURSIVE Utf8Decode(_)
\* buffer.toString(): the code units of UTF-8 bytes; a byte that starts no
\* well-formed sequence becomes U+FFFD
Utf8Decode(bytes) ==
  IF Len(bytes) = 0 THEN << >>
  ELSE
    LET b == bytes[1] IN
    IF b < 128 THEN << b >> \o Utf8Decode(Tail(bytes))
    ELSE IF b >= 194 /\ b < 224 /\ IsContinuation(bytes, 2) THEN
      << (b - 192) * 64 + (bytes[2] - 128) >>
      \o Utf8Decode(SubSeq(bytes, 3, Len(bytes)))
    ELSE IF b >= 224 /\ b < 240 /\ IsContinuation(bytes, 2)
            /\ IsContinuation(bytes, 3)
            /\ (b - 224) * 4096 + (bytes[2] - 128) * 64 >= 2048
            /\ ~ IsHighSurrogate((b - 224) * 4096 + (bytes[2] - 128) * 64)
            /\ ~ IsLowSurrogate((b - 224) * 4096 + (bytes[2] - 128) * 64) THEN
      << (b - 224) * 4096 + (bytes[2] - 128) * 64 + (bytes[3] - 128) >>
      \o Utf8Decode(SubSeq(bytes, 4, Len(bytes)))
    ELSE IF b >= 240 /\ b < 245 /\ IsContinuation(bytes, 2)
            /\ IsContinuation(bytes, 3) /\ IsContinuation(bytes, 4)
            /\ (b - 240) * 262144 + (bytes[2] - 128) * 4096 >= 65536
            /\ (b - 240) * 262144 + (bytes[2] - 128) * 4096 < 1114112 THEN
      LET cp == (b - 240) * 262144 + (bytes[2] - 128) * 4096
                + (bytes[3] - 128) * 64 + (bytes[4] - 128) IN
      << 55296 + ((cp - 65536) \div 1024), 56320 + ((cp - 65536) % 1024) >>
      \o Utf8Decode(SubSeq(bytes, 5, Len(bytes)))
    ELSE << ReplacementChar >> \o Utf8Decode(Tail(bytes))

\* ------------------------------------------------------ JavaScript values

Undefined == [type |-> "undefined", str |-> << >>, num |-> 0, bytes |-> << >>]
Null == [type |-> "null", str |-> << >>, num |-> 0, bytes |-> << >>]
Str(s) == [type |-> "string", str |-> s, num |-> 0, bytes |-> << >>]
\* new String(s)
StrObject(s) == [type |-> "String", str |-> s, num |-> 0, bytes |-> << >>]
Num(n) == [type |-> "number", str |-> << >>, num |-> n, bytes |-> << >>]
\* an array of small integers
Arr(b) == [type |-> "array", str |-> << >>, num |-> 0, bytes |-> b]
\* a plain object {}
Obj == [type |-> "object", str |-> << >>, num |-> 0, bytes |-> << >>]
Buf(b) == [type |-> "buffer", str |-> << >>, num |-> 0, bytes |-> b]

\* what a call gives: a value, or the error it throws
Return(v) == [ok |-> TRUE, value |-> v, error |-> "none"]
Throw(e) == [ok |-> FALSE, value |-> Undefined, error |-> e]

\* Buffer.from(value), as encrypt calls it
BufferFrom(value) ==
  CASE value.type = "string" -> Return(Buf(Utf8Encode(value.str)))
    [] value.type = "String" -> Return(Buf(Utf8Encode(value.str)))
    [] value.type = "array" -> Return(Buf(value.bytes))
    [] value.type = "buffer" -> Return(Buf(value.bytes))
    [] OTHER -> Throw("TypeError")

\* ------------------------------------------- node crypto (stand-ins)

BlockSize == 16
IvSize == 16
TagSize == 32

\* the 16 round-key bytes of a 16, 24 or 32 byte key
RoundKey(key) ==
  [i \in 1..BlockSize |->
     (key[i] + 3 * key[Len(key) - BlockSize + i] + Len(key)) % 256]

BlockEncrypt(key, block) ==
  LET rk == RoundKey(key)
  IN  [i \in 1..BlockSize |-> (block[i] + rk[i]) % 256]

BlockDecrypt(key, block) ==
  LET rk == RoundKey(key)
  IN  [i \in 1..BlockSize |-> (block[i] + 256 - rk[i]) % 256]

XorBlock(a, b) == [i \in 1..BlockSize |-> Xor(a[i], b[i])]

\* PKCS#7: 1..16 bytes, each the number of bytes added
Pkcs7Pad(bytes) ==
  LET n == BlockSize - (Len(bytes) % BlockSize)
  IN  bytes \o [i \in 1..n |-> n]

RECURSIVE CbcEncrypt(_, _, _)
CbcEncrypt(key, prev, padded) ==
  IF Len(padded) = 0 THEN << >>
  ELSE
    LET c == BlockEncrypt(key, XorBlock(SubSeq(padded, 1, BlockSize), prev))
    IN  c \o CbcEncrypt(key, c, SubSeq(padded, BlockSize + 1, Len(padded)))

RECURSIVE CbcDecrypt(_, _, _)
CbcDecrypt(key, prev, data) ==
  IF Len(data) = 0 THEN << >>
  ELSE
    LET c == SubSeq(data, 1, BlockSize)
    IN  XorBlock(BlockDecrypt(key, c), prev)
        \o CbcDecrypt(key, c, SubSeq(data, BlockSize + 1, Len(data)))

\* crypto.createCipheriv(encryption, key, iv) then update(data) and final()
CipherEncrypt(key, iv, data) ==
  IF Len(iv) # IvSize THEN Throw("Invalid initialization vector")
  ELSE Return(Buf(CbcEncrypt(key, iv, Pkcs7Pad(data))))

\* crypto.createDecipheriv(encryption, key, iv): the iv must be 16 bytes
CreateDecipheriv(key, iv) ==
  IF Len(iv) # IvSize THEN Throw("Invalid initialization vector")
  ELSE Return(Undefined)

\* decipher.update(data) then decipher.final(): whole blocks, then the padding
\* is checked and removed
DecipherFinal(key, iv, data) ==
  IF Len(data) = 0 \/ (Len(data) % BlockSize) # 0
  THEN Throw("wrong final block length")
  ELSE
    LET plain == CbcDecrypt(key, iv, data)
        n == plain[Len(plain)]
    IN  IF n = 0 \/ n > BlockSize
           \/ \E i \in (Len(plain) - n + 1)..Len(plain) : plain[i] # n
        THEN Throw("bad decrypt")
        ELSE Return(Buf(SubSeq(plain, 1, Len(plain) - n)))

RECURSIVE TagSum(_, _, _)
\* the sum of the message bytes at positions i, i + 32, i + 64, ...
TagSum(message, i, step) ==
  IF i > Len(message) THEN 0
  ELSE message[i] * (1 + 2 * (i \div step)) + TagSum(message, i + step, step)

\* crypto.createHash("sha1").update(text).digest("hex"): a symbolic digest,
\* equal exactly for equal input bytes
Sha1Hex(text) == Utf8Encode(text)

\* crypto.createHmac("sha256", key).update(message).digest(): 32 bytes
HmacSha256(key, message) ==
  [i \in 1..TagSize |->
     (7 * key[((i - 1) % Len(key)) + 1] + TagSum(message, i, TagSize)
      + Len(message) + i) % 256]

\* -------------------------------------------------- numbers and parseInt

\* NaN, the number that parseInt gives for text that starts with no digit
NaN == [type |-> "NaN", str |-> << >>, num |-> 0, bytes |-> << >>]

\* the value of a decimal digit character, -1 for any other character
Digit(c) == IF c >= 48 /\ c <= 57 THEN c - 48 ELSE -1

RECURSIVE SkipWhiteSpace(_)
SkipWhiteSpace(s) ==
  IF Len(s) > 0 /\ (s[1] = 32 \/ s[1] = 9 \/ s[1] = 10)
  THEN SkipWhiteSpace(Tail(s))
  ELSE s

RECURSIVE DigitsValue(_, _)
\* the value of the leading digits of s, after acc
DigitsValue(s, acc) ==
  IF Len(s) = 0 \/ Digit(s[1]) < 0 THEN acc
  ELSE DigitsValue(Tail(s), acc * 10 + Digit(s[1]))

\* parseInt(text, 10): leading white space, a sign, then the leading digits;
\* what follows the digits is ignored
ParseIntText(text) ==
  LET t == SkipWhiteSpace(text)
      negative == Len(t) > 0 /\ t[1] = 45
      signed == Len(t) > 0 /\ (t[1] = 45 \/ t[1] = 43)
      digits == IF signed THEN Tail(t) ELSE t
  IN  IF Len(digits) = 0 \/ Digit(digits[1]) < 0 THEN NaN
      ELSE IF negative THEN Num(0 - DigitsValue(digits, 0))
      ELSE Num(DigitsValue(digits, 0))

\* parseInt(value, 10) of a JavaScript value: its text is parsed
ParseInt(value) ==
  CASE value.type = "number" -> value
    [] value.type = "string" -> ParseIntText(value.str)
    [] value.type = "String" -> ParseIntText(value.str)
    [] value.type = "array" ->
         IF Len(value.bytes) = 0 THEN NaN ELSE Num(value.bytes[1])
    [] OTHER -> NaN

IsNaN(n) == n.type = "NaN"

\* a > b on numbers: false when either is NaN
Greater(a, b) == ~ IsNaN(a) /\ ~ IsNaN(b) /\ a.num > b.num

\* a === b on numbers: NaN equals nothing
StrictEqual(a, b) == ~ IsNaN(a) /\ ~ IsNaN(b) /\ a.num = b.num

\* ------------------------------------------------------ the key map object
\* A JavaScript object { id: secret, ... } is the sequence of its properties
\* [id, value] in the order Object.keys lists them: the ids that are array
\* indices ("0", "1", "12": digits with no leading zero) in ascending numeric
\* order, then every other id in the order of insertion.

IsArrayIndex(id) ==
  /\ Len(id) > 0
  /\ \A i \in 1..Len(id) : Digit(id[i]) >= 0
  /\ (Len(id) = 1 \/ id[1] # 48)

HasProperty(obj, id) == \E i \in 1..Len(obj) : obj[i].id = id

\* where a new property id goes in obj
InsertAt(obj, id) ==
  IF IsArrayIndex(id)
  THEN 1 + Cardinality({i \in 1..Len(obj) :
                          /\ IsArrayIndex(obj[i].id)
                          /\ DigitsValue(obj[i].id, 0) < DigitsValue(id, 0)})
  ELSE Len(obj) + 1

\* obj[id] = value
ObjectSet(obj, id, value) ==
  IF HasProperty(obj, id)
  THEN [i \in 1..Len(obj) |->
          IF obj[i].id = id THEN [id |-> id, value |-> value] ELSE obj[i]]
  ELSE LET at == InsertAt(obj, id)
       IN  SubSeq(obj, 1, at - 1) \o << [id |-> id, value |-> value] >>
           \o SubSeq(obj, at, Len(obj))

\* Object.keys(obj)
ObjectKeys(obj) == [i \in 1..Len(obj) |-> obj[i].id]

\* obj[id], for a property that is there
ObjectGet(obj, id) == obj[CHOOSE i \in 1..Len(obj) : obj[i].id = id].value

\* ------------------------------------------------------------ keyring.js

\* the value of an option that the caller did not give
Absent == "(absent)"

defaultKeyringOptions == [encryption |-> "aes-128-cbc"]

\* keySizes[encryption]: 0 stands for undefined, the size of no algorithm
keySizes(encryption) ==
  CASE encryption = "aes-128-cbc" -> 16
    [] encryption = "aes-192-cbc" -> 24
    [] encryption = "aes-256-cbc" -> 32
    [] OTHER -> 0

missingSaltError == "Kindly include the salt option"

\* isString with "instanceof Object" for "instanceof String"
isStringOrObject(object) ==
  object.type \in { "string", "String", "array", "object", "buffer" }

isString(object) == object.type = "string" \/ object.type = "String"

\* sha1(value, { salt })
sha1(value, salt) ==
  IF salt = Undefined THEN Throw(missingSaltError)
  ELSE IF ~ isString(value)
  THEN Throw("You can only generated SHA1 digests from strings")
  ELSE Return(Str(Sha1Hex(value.str \o salt.str)))

\* keyBuffer(value): a Buffer as it is, anything else read as base64 text
keyBuffer(value) ==
  IF value.type = "buffer" THEN value.bytes ELSE Base64Decode(value.str)

RECURSIVE normalizeFrom(_, _, _, _)
\* the reduce of normalizeKeys from property i on, buffer holding the keys
\* of the properties before it
normalizeFrom(keys, i, keySize, buffer) ==
  IF i > Len(keys) THEN Return(buffer)
  ELSE
    LET secret == keyBuffer(keys[i].value) IN
    IF Len(secret) # keySize * 2
    THEN Throw("Expected key to be 2 * keySize bytes long")
    ELSE normalizeFrom(keys, i + 1, keySize,
           Append(buffer,
                  [id |-> ParseIntText(keys[i].id),
                   encryptionKey |-> Subarray(secret, keySize, Len(secret)),
                   signingKey |-> Subarray(secret, 0, keySize)]))

\* normalizeKeys without the check of the secret's length
normalizeKeysUnchecked(keys, keySize) ==
  Return([i \in 1..Len(keys) |->
            LET secret == keyBuffer(keys[i].value)
            IN  [id |-> ParseIntText(keys[i].id),
                 encryptionKey |-> Subarray(secret, keySize, Len(secret)),
                 signingKey |-> Subarray(secret, 0, keySize)]])

normalizeKeys(keys, keySize) == normalizeFrom(keys, 1, keySize, << >>)

validateKeyring(keys) ==
  IF Len(keys) = 0 THEN Throw("You must initialize the keyring")
  ELSE IF \E i \in 1..Len(keys) : IsNaN(keys[i].id)
  THEN Throw("All keyring keys must be integer numbers")
  ELSE Return(Undefined)

RECURSIVE reduceCurrent(_, _, _)
\* keys.reduce((a, b) => (a.id > b.id ? a : b)) from element i on, a so far
reduceCurrent(keys, i, a) ==
  IF i > Len(keys) THEN a
  ELSE reduceCurrent(keys, i + 1,
                     IF Greater(a.id, keys[i].id) THEN a ELSE keys[i])

RECURSIVE reduceLeast(_, _, _)
reduceLeast(keys, i, a) ==
  IF i > Len(keys) THEN a
  ELSE reduceLeast(keys, i + 1,
                   IF Greater(keys[i].id, a.id) THEN a ELSE keys[i])

\* currentKey with the comparison turned round: a.id < b.id ? a : b
currentKeyLeast(keys) == reduceLeast(keys, 2, keys[1])

\* currentKey(keys), keys not empty
currentKey(keys) == reduceCurrent(keys, 2, keys[1])

\* findKey(keys, id): the first key of that id
findKey(keys, id) ==
  LET hits == {i \in 1..Len(keys) :
                 StrictEqual(ParseInt(keys[i].id), ParseInt(id))}
  IN  IF hits = {} THEN Throw("key is not available on keyring")
      ELSE Return(keys[CHOOSE i \in hits : \A j \in hits : i <= j])

RECURSIVE verifyFrom(_, _, _, _)
\* the loop of verifySignature from (one-based) index i on
verifyFrom(expected, actual, i, acc) ==
  IF i > Len(expected) THEN acc
  ELSE verifyFrom(expected, actual, i + 1,
                  BitOr(acc, Xor(expected[i], actual[i])))

\* verifySignature with "acc =" for "acc |=": the last byte decides
verifySignatureLastByte(expected, actual) ==
  IF Len(expected) # Len(actual) THEN FALSE
  ELSE Xor(expected[Len(expected)], actual[Len(actual)]) = 0

verifySignature(expected, actual) ==
  IF Len(expected) # Len(actual) THEN FALSE
  ELSE verifyFrom(expected, actual, 1, 0) = 0

hmacDigest(key, message) == HmacSha256(key, message)

\* encrypt(keys, { encryption, salt }, message), iv being what
\* crypto.randomBytes(16) gives
encrypt(keys, options, message, iv) ==
  LET key == currentKey(keys)
      data == BufferFrom(message)
  IN  IF ~ data.ok THEN Throw(data.error)
      ELSE
        LET encrypted == CipherEncrypt(key.encryptionKey, iv,
                                       data.value.bytes).value.bytes
            hmac == hmacDigest(key.signingKey, iv \o encrypted)
            returnValue == Base64Encode(hmac \o iv \o encrypted)
            digest == sha1(message, options.salt)
        IN  IF ~ digest.ok THEN Throw(digest.error)
            ELSE Return([encrypted |-> Str(returnValue),
                         keyringId |-> key.id,
                         digest |-> digest.value])

hmacMismatchError == "Expected HMAC to be expectedHmac; got hmac instead"

\* what a run of decrypt did: its result, and the calls it made, in order
Ran(result, calls) == [result |-> result, calls |-> calls]

\* decrypt(key, { encryption }, message)
decrypt(key, options, message) ==
  IF ~ (isString(message) \/ message.type = "buffer")
  THEN Ran(Throw("TypeError"), << "Buffer.from" >>)
  ELSE
    LET decoded == IF message.type = "buffer" THEN message.bytes
                   ELSE Base64Decode(message.str)
        hmac == Subarray(decoded, 0, 32)
        iv == Subarray(decoded, 32, 48)
        encrypted == Subarray(decoded, 48, Len(decoded))
        decipher == CreateDecipheriv(key.encryptionKey, iv)
    IN  IF ~ decipher.ok
        THEN Ran(Throw(decipher.error), << "Buffer.from", "subarray", "createDecipheriv" >>)
        ELSE
          LET decrypted == DecipherFinal(key.encryptionKey, iv, encrypted) IN
          IF ~ decrypted.ok
          THEN Ran(Throw(decrypted.error),
                   << "Buffer.from", "subarray", "createDecipheriv", "decipher" >>)
          ELSE
            LET expectedHmac == hmacDigest(key.signingKey, iv \o encrypted) IN
            IF ~ verifySignature(expectedHmac, hmac)
            THEN Ran(Throw(hmacMismatchError),
                     << "Buffer.from", "subarray", "createDecipheriv", "decipher",
                        "hmacDigest", "verifySignature" >>)
            ELSE Ran(Return(Str(Utf8Decode(decrypted.value.bytes))),
                     << "Buffer.from", "subarray", "createDecipheriv", "decipher",
                        "hmacDigest", "verifySignature", "toString" >>)

\* keyring(keys, options): the object of the four closures is the pair of
\* what they close over, the normalized keys and the options
keyring(keys, options) ==
  LET merged ==
        [encryption |-> IF options.encryption = Absent
                        THEN defaultKeyringOptions.encryption
                        ELSE options.encryption,
         salt |-> options.salt]
      keySize == keySizes(merged.encryption)
  IN  IF merged.salt = Undefined THEN Throw(missingSaltError)
      ELSE IF keySize = 0
      THEN Throw("Encryption algorithm not recognized or unsupported")
      ELSE
        LET normalized == normalizeKeys(keys, keySize) IN
        IF ~ normalized.ok THEN Throw(normalized.error)
        ELSE
          LET valid == validateKeyring(normalized.value) IN
          IF ~ valid.ok THEN Throw(valid.error)
          ELSE Return([keys |-> normalized.value, options |-> merged])

\* ring.encrypt(message)
ringEncrypt(ring, message, iv) == encrypt(ring.keys, ring.options, message, iv)

\* ring.decrypt(message, keyringId)
ringDecrypt(ring, message, keyringId) ==
  LET key == findKey(ring.keys, keyringId)
  IN  IF ~ key.ok THEN Ran(Throw(key.error), << "findKey" >>)
      ELSE LET ran == decrypt(key.value, ring.options, message)
           IN  Ran(ran.result, << "findKey" >> \o ran.calls)

\* ring.digest(message)
ringDigest(ring, message) == sha1(message, ring.options.salt)

\* ring.currentId()
ringCurrentId(ring) == currentKey(ring.keys).id

\* ---------------------------------------------------------------- inputs

\* how many properties a key map is given
MaxKeys == 3

\* how many values crypto.randomBytes(16) is drawn from
NumIvs == 1

\* "uDiMcWVNTuz//naQ88sOcN+E40CyBRGzGTT7OkoBS6M="
TestSecret128 ==
  Str(<< 117, 68, 105, 77, 99, 87, 86, 78, 84, 117, 122, 47, 47, 110, 97, 81,
          56, 56, 115, 79, 99, 78, 43, 69, 52, 48, 67, 121, 66, 82, 71, 122, 71,
          84, 84, 55, 79, 107, 111, 66, 83, 54, 77, 61 >>)

\* "VN8UXRVMNbIh9FWEFVde0q7GUA1SGOie1+FgAKlNYHc="
ExampleSecret128 ==
  Str(<< 86, 78, 56, 85, 88, 82, 86, 77, 78, 98, 73, 104, 57, 70, 87, 69, 70,
          86, 100, 101, 48, 113, 55, 71, 85, 65, 49, 83, 71, 79, 105, 101, 49,
          43, 70, 103, 65, 75, 108, 78, 89, 72, 99, 61 >>)

\* "wtnnoK+5an+FPtxnkdUDrNw6fAq8yMkvCvzWpriLL9TQTR2WC/k+XPahYFPvCemG"
TestSecret192 ==
  Str(<< 119, 116, 110, 110, 111, 75, 43, 53, 97, 110, 43, 70, 80, 116, 120,
          110, 107, 100, 85, 68, 114, 78, 119, 54, 102, 65, 113, 56, 121, 77,
          107, 118, 67, 118, 122, 87, 112, 114, 105, 76, 76, 57, 84, 81, 84, 82,
          50, 87, 67, 47, 107, 43, 88, 80, 97, 104, 89, 70, 80, 118, 67, 101,
          109, 71 >>)

\* "XZXC+c7VUVGpyAceSUCOBbrp2fjJeeHwoaMQefgSCfp0/HABY5yJ7zRiLZbDlDZ7HytCRsvP4CxXt5hUqtx9Uw=="
TestSecret256 ==
  Str(<< 88, 90, 88, 67, 43, 99, 55, 86, 85, 86, 71, 112, 121, 65, 99, 101, 83,
          85, 67, 79, 66, 98, 114, 112, 50, 102, 106, 74, 101, 101, 72, 119,
          111, 97, 77, 81, 101, 102, 103, 83, 67, 102, 112, 48, 47, 72, 65, 66,
          89, 53, 121, 74, 55, 122, 82, 105, 76, 90, 98, 68, 108, 68, 90, 55,
          72, 121, 116, 67, 82, 115, 118, 80, 52, 67, 120, 88, 116, 53, 104, 85,
          113, 116, 120, 57, 85, 119, 61, 61 >>)

\* "batataAssadaCom3Sal", 14 bytes when decoded
ShortSecret ==
  Str(<< 98, 97, 116, 97, 116, 97, 65, 115, 115, 97, 100, 97, 67, 111, 109, 51,
          83, 97, 108 >>)


\* a secret given as a Buffer of n bytes
RawSecret(n) == Buf([i \in 1..n |-> (37 * i + 11) % 256])

\* "0", "1", "2", "01", "02", "1a", "1.5", "a"
Id0 == << 48 >>
Id1 == << 49 >>
Id2 == << 50 >>
Id01 == << 48, 49 >>
Id02 == << 48, 50 >>
Id1a == << 49, 97 >>
Id1dot5 == << 49, 46, 53 >>
IdA == << 97 >>

Entry(id, value) == [id |-> id, value |-> value]

\* two secrets of the length the algorithm of the options asks for
SecretsFor(opts) ==
  CASE opts.encryption = "aes-192-cbc" -> << TestSecret192, RawSecret(48) >>
    [] opts.encryption = "aes-256-cbc" -> << TestSecret256, RawSecret(64) >>
    [] OTHER -> << TestSecret128, ExampleSecret128 >>

\* the properties a caller adds to the key map: ids in and out of numeric
\* order, two of them ("1" and "01", "2" and "02") the same integer
Entries(opts) ==
  { Entry(Id1, SecretsFor(opts)[1]), Entry(Id2, SecretsFor(opts)[2]),
    Entry(Id01, SecretsFor(opts)[2]), Entry(Id02, SecretsFor(opts)[1]) }

\* the options of the tests, one for each algorithm
Configs ==
  { [encryption |-> Absent, salt |-> Str(<< >>)],
    [encryption |-> "aes-192-cbc", salt |-> Str(<< 97 >>)],
    [encryption |-> "aes-256-cbc", salt |-> Str(<< >>)] }

\* "42", an emoji (a surrogate pair), a high surrogate alone
Text42 == Str(<< 52, 50 >>)
TextEmoji == Str(<< 55357, 56832 >>)
TextLoneSurrogate == Str(<< 55357 >>)
\* sixteen characters: two cipher blocks once padded
TextBlock == Str([i \in 1..16 |-> 96 + i])

Strings == { Text42, TextEmoji }

\* 1234, null, undefined, [1, 2], {}, a Buffer
NonStrings ==
  { Num(1234), Null, Undefined, Arr(<< 1, 2 >>), Obj, Buf(<< 52, 50 >>) }

Messages == Strings \cup NonStrings \cup { StrObject(<< 52, 50 >>) }

Iv(n) == [i \in 1..IvSize |-> (53 * n + 11 * i) % 256]
Ivs == { Iv(n) : n \in 1..NumIvs }

KeyringIds == { Num(0), Num(1), Num(2) }

\* ----------------------------------------------------------------- state

VARIABLES
  keys,     \* the caller's key map object { id: secret }
  options,  \* the caller's options object { encryption, salt }
  sealed,   \* what the caller stored of the last encrypt that returned
  out,      \* the call being looked at: its arguments and what it gave
  record    \* the model instance of the Sequelize hooks

vars == << keys, options, sealed, out, record >>

Idle == [op |-> "idle"]
NoSealed == [present |-> FALSE]
NoRecord == [present |-> FALSE]

\* not tampered with
Genuine == [kind |-> "genuine", byte |-> 0, bit |-> 0, length |-> 0]

Init ==
  /\ keys = << >>
  /\ options \in Configs
  /\ sealed = NoSealed
  /\ out = Idle
  /\ record = NoRecord

\* keys[id] = value, for an id the map does not have
AddKey(id, value) ==
  /\ out.op = "idle"
  /\ Len(keys) < MaxKeys
  /\ ~ HasProperty(keys, id)
  /\ keys' = ObjectSet(keys, id, value)
  /\ UNCHANGED << options, sealed, out, record >>

\* keyring(keys, options)
New ==
  /\ out.op = "idle"
  /\ out' = [op |-> "keyring", result |-> keyring(keys, options)]
  /\ UNCHANGED << keys, options, sealed, record >>

\* keyring(keys, options).encrypt(message)
Encrypt(message, iv) ==
  /\ out.op = "idle"
  /\ \E made \in { keyring(keys, options) } :
     \E result \in { IF made.ok THEN ringEncrypt(made.value, message, iv)
                     ELSE Throw(made.error) } :
         /\ out' = [op |-> "encrypt", message |-> message, iv |-> iv,
                    result |-> result]
         /\ sealed' = IF result.ok
                      THEN [present |-> TRUE,
                            encrypted |-> result.value.encrypted,
                            keyringId |-> result.value.keyringId,
                            digest |-> result.value.digest,
                            message |-> message,
                            keys |-> keys]
                      ELSE sealed
  /\ UNCHANGED << keys, options, record >>

\* keyring(keys, options).decrypt(message, keyringId)
Decrypt(message, keyringId, forged) ==
  /\ out.op = "idle"
  /\ \E made \in { keyring(keys, options) } :
     \E ran \in { IF made.ok THEN ringDecrypt(made.value, message, keyringId)
                  ELSE Ran(Throw(made.error), << >>) } :
         out' = [op |-> "decrypt", message |-> message,
                 keyringId |-> keyringId, forged |-> forged,
                 result |-> ran.result, calls |-> ran.calls]
  /\ UNCHANGED << keys, options, sealed, record >>

\* keyring(keys, options).currentId()
CurrentId ==
  /\ out.op = "idle"
  /\ LET made == keyring(keys, options)
     IN  out' = [op |-> "currentId",
                 result |-> IF made.ok THEN Return(ringCurrentId(made.value))
                            ELSE Throw(made.error)]
  /\ UNCHANGED << keys, options, sealed, record >>

\* the caller is done with the call
Forget ==
  /\ out.op # "idle"
  /\ out' = Idle
  /\ UNCHANGED << keys, options, sealed, record >>

\* ------------------------------------------------- construction, at large
\* Key maps and options of every kind the constructor tells apart.

\* the default algorithm with and without a salt, each algorithm by name,
\* "digestSalt" given in place of salt, and an algorithm that is not supported
ConstructConfigs ==
  { [encryption |-> Absent, salt |-> Undefined],
    [encryption |-> Absent, salt |-> Str(<< >>)],
    [encryption |-> "aes-128-cbc", salt |-> Str(<< 97 >>)],
    [encryption |-> "aes-192-cbc", salt |-> Str(<< >>)],
    [encryption |-> "aes-256-cbc", salt |-> Str(<< >>)],
    [encryption |-> "aes-256-cbc", salt |-> Undefined],
    [encryption |-> "des-ede3-cbc", salt |-> Str(<< >>)] }

ConstructEntries ==
  { Entry(Id0, TestSecret128), Entry(Id1, ExampleSecret128),
    Entry(Id01, TestSecret128), Entry(Id1a, TestSecret128),
    Entry(Id1dot5, ExampleSecret128), Entry(IdA, TestSecret128),
    Entry(Id2, TestSecret192), Entry(Id02, TestSecret256),
    Entry(<< 51 >>, ShortSecret) }

InitConstruct ==
  /\ keys = << >>
  /\ options \in ConstructConfigs
  /\ sealed = NoSealed
  /\ out = Idle
  /\ record = NoRecord

NextConstruct ==
  \/ \E e \in ConstructEntries : AddKey(e.id, e.value)
  \/ New
  \/ CurrentId
  \/ Forget

SpecConstruct == InitConstruct /\ [][NextConstruct]_vars

\* ------------------------------------------------------------- tampering
\* A stored envelope is changed on its way back to decrypt.

RECURSIVE Pow2(_)
Pow2(n) == IF n = 0 THEN 1 ELSE 2 * Pow2(n - 1)

\* the bytes with bit `bit` of the byte at (zero-based) offset `byte` flipped
FlipBit(bytes, byte, bit) ==
  [i \in 1..Len(bytes) |->
     IF i = byte + 1 THEN Xor(bytes[i], Pow2(bit)) ELSE bytes[i]]

Flipped(byte, bit) ==
  [kind |-> "flipped", byte |-> byte, bit |-> bit, length |-> 0]
Truncated(n) == [kind |-> "truncated", byte |-> 0, bit |-> 0, length |-> n]

\* the lengths an envelope is cut to: inside and at the end of each region
TruncatedLengths == { 0, 1, 31, 32, 40, 47, 48, 49, 63 }

TamperMessages == { Text42, TextBlock, TextLoneSurrogate }

InitTamper ==
  /\ options \in Configs
  /\ keys = ObjectSet(ObjectSet(<< >>, Id1, SecretsFor(options)[1]),
                      Id2, SecretsFor(options)[2])
  /\ sealed = NoSealed
  /\ out = Idle
  /\ record = NoRecord

\* decrypt of the stored envelope with one bit flipped
DecryptFlipped ==
  /\ sealed.present
  /\ LET decoded == Base64Decode(sealed.encrypted.str)
     IN  \E byte \in 0..(Len(decoded) - 1), bit \in 0..7 :
           Decrypt(Str(Base64Encode(FlipBit(decoded, byte, bit))),
                   sealed.keyringId, Flipped(byte, bit))

\* decrypt of the first n bytes of the stored envelope
DecryptTruncated ==
  /\ sealed.present
  /\ LET decoded == Base64Decode(sealed.encrypted.str)
     IN  \E n \in TruncatedLengths :
           Decrypt(Str(Base64Encode(SubSeq(decoded, 1, n))),
                   sealed.keyringId, Truncated(n))

\* decrypt of the stored envelope as it is, under any key id
DecryptStored ==
  /\ sealed.present
  /\ \E k \in KeyringIds : Decrypt(sealed.encrypted, k, Genuine)

NextTamper ==
  \/ \E m \in TamperMessages, iv \in Ivs : Encrypt(m, iv)
  \/ DecryptFlipped
  \/ DecryptTruncated
  \/ DecryptStored
  \/ Forget

SpecTamper == InitTamper /\ [][NextTamper]_vars

\* ---------------------------------------------------------- sequelize.js
\* The hooks on a model instance. A record is the function from the names of
\* its attributes to their values; NoRecord is the null of a find that found
\* no row.

\* isString(value) of sequelize.js
hookIsString(value) == value.type = "string" \/ value.type = "String"

\* a value that `||` keeps: not undefined, null, 0, NaN or ""
Truthy(value) ==
  CASE value.type \in { "undefined", "null", "NaN" } -> FALSE
    [] value.type = "number" -> value.num # 0
    [] value.type = "string" -> Len(value.str) > 0
    [] OTHER -> TRUE

\* model.options.keyring as setup(model, { keys, columns, salt, encryption })
\* leaves it: keys is the caller's key map object itself
setup(keyMap, opts) ==
  [keys |-> keyMap,
   columns |-> << "email", "secret" >>,
   encryption |-> IF opts.encryption = Absent THEN "aes-128-cbc"
                  ELSE opts.encryption,
   keyringIdColumn |-> "keyring_id",
   salt |-> opts.salt]

\* getModelOptions(record).keyring
getModelOptions(keyMap, opts) == setup(keyMap, opts)

\* what a hook did: its result, the record as it left it, the calls it made
\* on the keyring
Hooked(result, rec, calls) ==
  [result |-> result, record |-> rec, calls |-> calls]

RECURSIVE saveColumns(_, _, _, _, _, _)
\* columns.forEach of beforeSave from column i on; ivs[i] is what
\* crypto.randomBytes gives the encrypt of column i
saveColumns(rec, ring, settings, i, ivs, calls) ==
  IF i > Len(settings.columns) THEN Hooked(Return(Undefined), rec, calls)
  ELSE
    LET column == settings.columns[i]
        digestColumn == column \o "_digest"
        value == rec[column]
        stored == rec[settings.keyringIdColumn]
        string == hookIsString(value)
        made == IF string THEN ringEncrypt(ring, value, ivs[i])
                ELSE Return(Undefined)
    IN  IF ~ made.ok THEN Hooked(Throw(made.error), rec, Append(calls, "encrypt"))
        ELSE
          LET encrypted == IF string THEN made.value.encrypted ELSE Null
              digest == IF string THEN made.value.digest ELSE Null
              keyringId == IF string THEN made.value.keyringId
                           ELSE IF Truthy(stored) THEN stored
                           ELSE ringCurrentId(ring)
              written == [rec EXCEPT !["encrypted_" \o column] = encrypted,
                                     ![settings.keyringIdColumn] = keyringId]
              attributes == DOMAIN rec
          IN  saveColumns(IF digestColumn \in attributes
                          THEN [written EXCEPT ![digestColumn] = digest]
                          ELSE written,
                          ring, settings, i + 1, ivs,
                          IF string THEN Append(calls, "encrypt")
                          ELSE IF Truthy(stored) THEN calls
                          ELSE Append(calls, "currentId"))

\* beforeSave(record)
beforeSave(rec, settings, ivs) ==
  LET made == keyring(settings.keys,
                      [encryption |-> settings.encryption,
                       salt |-> settings.salt])
  IN  IF ~ made.ok THEN Hooked(Throw(made.error), rec, << >>)
      ELSE saveColumns(rec, made.value, settings, 1, ivs, << >>)

RECURSIVE findColumns(_, _, _, _, _)
\* columns.forEach of afterFind from column i on
findColumns(rec, ring, settings, i, calls) ==
  IF i > Len(settings.columns) THEN Hooked(Return(Undefined), rec, calls)
  ELSE
    LET column == settings.columns[i]
        keyringId == rec[settings.keyringIdColumn]
        encrypted == rec["encrypted_" \o column]
        string == hookIsString(encrypted)
        ran == IF string THEN ringDecrypt(ring, encrypted, keyringId).result
               ELSE Return(Null)
    IN  IF ~ ran.ok THEN Hooked(Throw(ran.error), rec, Append(calls, "decrypt"))
        ELSE findColumns([rec EXCEPT ![column] = ran.value], ring, settings,
                         i + 1,
                         IF string THEN Append(calls, "decrypt") ELSE calls)

\* afterFind(record), record not an Array
afterFind(rec, settings) ==
  IF rec = NoRecord THEN Hooked(Return(Undefined), rec, << >>)
  ELSE
    LET made == keyring(settings.keys,
                        [encryption |-> settings.encryption,
                         salt |-> settings.salt])
    IN  IF ~ made.ok THEN Hooked(Throw(made.error), rec, << >>)
        ELSE findColumns(rec, made.value, settings, 1, << >>)

\* the keys a caller adds to the key map of the model
OrmEntries(opts) ==
  { Entry(Id0, SecretsFor(opts)[1]), Entry(Id1, SecretsFor(opts)[2]),
    Entry(Id2, SecretsFor(opts)[1]), Entry(Id01, SecretsFor(opts)[1]) }

\* what a caller gives a column: a string, null, a number
ColumnValues == { Text42, Null, Num(1234) }

\* the options of the example: "aes-128-cbc" and a salt
OrmConfigs == { [encryption |-> "aes-128-cbc", salt |-> Str(<< 97 >>)] }

InitOrm ==
  /\ keys = << >>
  /\ options \in OrmConfigs
  /\ sealed = NoSealed
  /\ out = Idle
  /\ record = NoRecord

\* User.build({ email, secret })
Build(email, secret) ==
  /\ out.op = "idle"
  /\ record = NoRecord
  /\ record' = [email |-> email, email_digest |-> Undefined,
                encrypted_email |-> Undefined, secret |-> secret,
                encrypted_secret |-> Undefined, keyring_id |-> Undefined]
  /\ UNCHANGED << keys, options, sealed, out >>

\* record[column] = value
Assign(column, value) ==
  /\ out.op = "idle"
  /\ record # NoRecord
  /\ record[column] # value
  /\ record' = [record EXCEPT ![column] = value]
  /\ UNCHANGED << keys, options, sealed, out >>

\* record.save(), as far as the beforeSave hook; sealed keeps what each column
\* was when the hook last returned
Save(ivs) ==
  /\ out.op = "idle"
  /\ record # NoRecord
  /\ \E ran \in { beforeSave(record, getModelOptions(keys, options), ivs) } :
         /\ record' = ran.record
         /\ out' = [op |-> "beforeSave", result |-> ran.result,
                    calls |-> ran.calls]
         /\ sealed' = IF ran.result.ok
                      THEN [present |-> TRUE, email |-> record.email,
                            secret |-> record.secret]
                      ELSE sealed
  /\ UNCHANGED << keys, options >>

\* the afterFind hook on what a find gave
Find ==
  /\ out.op = "idle"
  /\ \E ran \in { afterFind(record, getModelOptions(keys, options)) } :
         /\ record' = ran.record
         /\ out' = [op |-> "afterFind", result |-> ran.result,
                    calls |-> ran.calls]
  /\ UNCHANGED << keys, options, sealed >>

NextOrm ==
  \/ \E e \in OrmEntries(options) : AddKey(e.id, e.value)
  \/ \E email \in ColumnValues, secret \in ColumnValues : Build(email, secret)
  \/ \E column \in { "email", "secret" }, value \in ColumnValues :
       Assign(column, value)
  \/ \E ivs \in [1..2 -> Ivs] : Save(ivs)
  \/ Find
  \/ Forget

SpecOrm == InitOrm /\ [][NextOrm]_vars

\* ------------------------------------------- the keyring, from map to use

Next ==
  \/ \E e \in Entries(options) : AddKey(e.id, e.value)
  \/ New
  \/ \E m \in Messages, iv \in Ivs : Encrypt(m, iv)
  \/ DecryptStored
  \/ CurrentId
  \/ Forget

Spec == Init /\ [][Next]_vars

\* ---------------------------------------------------------------- claims

\* the integer ids of a key map
IdsOf(map) == { ParseIntText(map[i].id).num : i \in 1..Len(map) }
MaxId(map) == CHOOSE m \in IdsOf(map) : \A n \in IdsOf(map) : n <= m

\* the map without its i-th property
WithoutProperty(map, i) == SubSeq(map, 1, i - 1) \o SubSeq(map, i + 1, Len(map))

\* the id text is an integer: an optional sign, then digits and nothing else
IsIntegerText(id) ==
  LET digits == IF Len(id) > 0 /\ (id[1] = 45 \/ id[1] = 43) THEN Tail(id)
                ELSE id
  IN  Len(digits) > 0 /\ \A i \in 1..Len(digits) : Digit(digits[i]) >= 0

\* out is decrypt(envelope, keyId) of the stored envelope under the id that
\* encrypt reported, on a keyring of the same key map and options
DecryptsStored ==
  /\ out.op = "decrypt"
  /\ out.forged.kind = "genuine"
  /\ sealed.present
  /\ out.message = sealed.encrypted
  /\ out.keyringId = sealed.keyringId

\* C1: every string that encrypt sealed is what decrypt gives back for the
\* envelope and key id of that encrypt, on a keyring of the same key map and
\* options, whichever the algorithm.
C1_RoundTrip ==
  (DecryptsStored /\ sealed.keys = keys /\ sealed.message.type = "string")
    => (out.result.ok /\ out.result.value = sealed.message)

\* C2: once a key of id N + 1 is added to a key map of greatest id N, encrypt
\* on the keyring of the new map reports N + 1, and decrypt of an envelope
\* sealed under N with the map as it was gives the sealed string back.
C2_Rotation ==
  \A i \in 1..Len(keys) :
    LET before == WithoutProperty(keys, i)
        added == ParseIntText(keys[i].id)
    IN  (/\ Len(before) > 0
         /\ \A j \in 1..Len(keys) : ~ IsNaN(ParseIntText(keys[j].id))
         /\ added.num = MaxId(before) + 1)
        => /\ (out.op = "encrypt" /\ out.result.ok)
                => out.result.value.keyringId = Num(MaxId(before) + 1)
           /\ (/\ DecryptsStored
               /\ sealed.keys = before
               /\ sealed.keyringId = Num(MaxId(before))
               /\ sealed.message.type = "string")
                => (out.result.ok /\ out.result.value = sealed.message)

\* the offset is in the tag (bytes 0..31) or in the ciphertext (48 and on)
InTagOrCiphertext(byte) == byte < 32 \/ byte >= 48

\* C3: decrypt of an envelope with one bit of its tag or of its ciphertext
\* flipped, under the key id it was sealed with, fails with the HMAC
\* mismatch error and with no other outcome.
C3_TamperDetected ==
  (/\ out.op = "decrypt"
   /\ out.forged.kind = "flipped"
   /\ InTagOrCiphertext(out.forged.byte))
    => (~ out.result.ok /\ out.result.error = hmacMismatchError)

\* the first 32 bytes of the envelope are the HMAC, under the signing key of
\* the key of that id, of the bytes that follow
TagMatches(message, keyringId) ==
  LET made == keyring(keys, options)
      decoded == Base64Decode(message.str)
      hits == { i \in 1..Len(made.value.keys) :
                  made.value.keys[i].id = ParseInt(keyringId) }
  IN  /\ made.ok
      /\ hits # {}
      /\ Len(decoded) >= 32
      /\ LET key == made.value.keys[CHOOSE i \in hits : \A j \in hits : i <= j]
             tag == HmacSha256(key.signingKey, SubSeq(decoded, 33, Len(decoded)))
         IN  \A i \in 1..32 : decoded[i] = tag[i]

\* C4: decrypt returns a string only for an envelope whose first 32 bytes are
\* the HMAC of the rest under the signing key of the key id; for every other
\* envelope, the ones shorter than 32 bytes too, it throws and gives nothing.
C4_FailClosed ==
  out.op = "decrypt"
    => /\ out.result.ok => TagMatches(out.message, out.keyringId)
       /\ ~ TagMatches(out.message, out.keyringId)
            => (~ out.result.ok /\ out.result.value = Undefined)

C4_Witness ==
  /\ out.op = "decrypt"
  /\ out.forged.kind = "flipped"
  /\ out.forged.byte < 32
  /\ ~ TagMatches(out.message, out.keyringId)
  /\ out.result.error = hmacMismatchError

\* C5: currentId() is the greatest integer id of the key map the keyring was
\* made of, and so is the key id every encrypt reports, whatever the number
\* and the order of the keys.
C5_CurrentIsGreatest ==
  /\ (out.op = "currentId" /\ out.result.ok)
       => out.result.value = Num(MaxId(keys))
  /\ (out.op = "encrypt" /\ out.result.ok)
       => out.result.value.keyringId = Num(MaxId(keys))

\* three keys, the greatest id not the last of them
C5_Witness ==
  /\ out.op = "encrypt"
  /\ out.result.ok
  /\ Len(keys) = 3
  /\ ParseIntText(keys[3].id).num < MaxId(keys)
  /\ out.result.value.keyringId = Num(MaxId(keys))

\* the algorithm the options ask for
AskedEncryption ==
  IF options.encryption = Absent THEN "aes-128-cbc" ELSE options.encryption

Supported == { "aes-128-cbc", "aes-192-cbc", "aes-256-cbc" }

\* bytes of each of the two keys of a secret
AskedKeySize ==
  CASE AskedEncryption = "aes-128-cbc" -> 16
    [] AskedEncryption = "aes-192-cbc" -> 24
    [] AskedEncryption = "aes-256-cbc" -> 32

DecodedLength(value) ==
  IF value.type = "buffer" THEN Len(value.bytes)
  ELSE Len(Base64Decode(value.str))

C7_IntegerIds ==
  (out.op = "keyring" /\ \E i \in 1..Len(keys) : ~ IsIntegerText(keys[i].id))
    => ~ out.result.ok

\* C8: encrypt of a value that is not a string (a number, null, undefined,
\* an array, a plain object, a Buffer) throws and gives no triple.
C8_NonStringRejected ==
  (out.op = "encrypt" /\ out.message \in NonStrings)
    => (~ out.result.ok /\ out.result.value = Undefined)

\* an array, which Buffer.from accepts, on a keyring that was made
C8_Witness ==
  /\ out.op = "encrypt"
  /\ out.message.type = "array"
  /\ keyring(keys, options).ok
  /\ ~ out.result.ok
  /\ out.result.error = "You can only generated SHA1 digests from strings"

\* what of a record is stored: its envelopes and its key id
Stored(rec) ==
  << rec.encrypted_email, rec.encrypted_secret, rec.keyring_id >>

\* C9: the key id of a stored record goes from k to another k' only in a
\* save whose beforeSave called encrypt again, on a keyring of current id k'
\* greater than k; afterFind and a key added to the key map leave the
\* envelopes and the key id of the record as they are.
C9_KeyVersionTransitions ==
  [][(record # NoRecord /\ record' # NoRecord)
       => /\ (/\ record.keyring_id.type = "number"
              /\ record'.keyring_id # record.keyring_id)
               => /\ out'.op = "beforeSave"
                  /\ \E i \in 1..Len(out'.calls) : out'.calls[i] = "encrypt"
                  /\ record'.keyring_id = Num(MaxId(keys))
                  /\ record'.keyring_id.num > record.keyring_id.num
          /\ (out'.op = "afterFind" \/ keys' # keys)
               => Stored(record') = Stored(record)]_vars

\* C10: in a decrypt the ciphertext is deciphered only after the HMAC of
\* iv and ciphertext was verified: no call of the decipher comes before the
\* call of verifySignature.
C10_VerifyBeforeDecipher ==
  out.op = "decrypt"
    => \A i \in 1..Len(out.calls) :
         out.calls[i] = "decipher"
           => \E j \in 1..(i - 1) : out.calls[j] = "verifySignature"

\* C11: in a keyring that was made no two keys have the same integer id,
\* whatever the id strings of the key map ("1" and "01" too), and so the key
\* currentKey gives encrypt is the key findKey gives for the id encrypt
\* reports.
C11_UniqueIds ==
  (out.op = "keyring" /\ out.result.ok)
    => LET made == out.result.value.keys
       IN  /\ \A i, j \in 1..Len(made) : made[i].id = made[j].id => i = j
           /\ findKey(made, currentKey(made).id) = Return(currentKey(made))

\* C12: whatever saves, finds and added keys came before, afterFind on a
\* record that was saved, with the key map and its key id as they are, gives
\* every column that was a string at the last save that string back; records
\* with a column that is not a string and records of key id 0 too.
C12_RecordDecryptable ==
  (record # NoRecord /\ sealed.present)
    => LET found == afterFind(record, getModelOptions(keys, options))
       IN  /\ found.result.ok
           /\ \A column \in { "email", "secret" } :
                hookIsString(sealed[column])
                  => found.record[column] = sealed[column]

====
